---- MODULE Spec2Model ----
(***************************************************************************)
(* SessionManager (autogen-studio frontend, views/session/manager.tsx):    *)
(* the reconciliation of sessionAPI responses into the config store        *)
(* (sessions, session), the editor flags, the loading flag and the sidebar *)
(* flag persisted under the local storage key "sessionSidebar".            *)
(*                                                                         *)
(* A Session is a record [id, v]: id is the backend identifier, v stands   *)
(* for its content.  null / undefined is the record None, whose id 0 is    *)
(* falsy as in the source.  Every asynchronous handler is split where its  *)
(* await splits it: the invocation (which captures the render's `sessions` *)
(* and `session` in its closure), the backend's answer, and the            *)
(* continuation that reconciles the answer into the store.  The calls in   *)
(* flight are kept in the order in which they were made.                   *)
(***************************************************************************)
EXTENDS Integers, Sequences, FiniteSets, TLC

VARIABLES
    status,         \* "unmounted" | "mounted" | "crashed" (the initialiser threw)
    user,           \* TRUE iff user?.email is present
    sessions,       \* store: the session list
    session,        \* store: the current session, or None
    isLoading,
    isEditorOpen,
    editingSession,
    isSidebarOpen,
    storage,        \* localStorage["sessionSidebar"], or Absent
    db,             \* backend: id -> content, NoRow where there is no session
    nextId,         \* backend: the next identifier createSession assigns
    reqs,           \* the sessionAPI calls awaiting their continuation, oldest first
    last,           \* the handler step taken last, with the state it started from
    raStatus,       \* RAView: "unmounted" | "mounted"
    loading,        \* RAView state
    messages,       \* RAView state: the messages handed to ChatBox
    error,          \* RAView state: an IStatus, or NoError for null
    pending,        \* RAView: TRUE while the fetchJSON call of fetchMessages is unanswered
    raLast          \* RAView: the step taken last, with the state it started from

\* the state of RAView (research-assistant frontend, views/ra/ra.tsx)
raView == << raStatus, loading, messages, error, pending, raLast >>

vars == << status, user, sessions, session, isLoading, isEditorOpen,
           editingSession, isSidebarOpen, storage, db, nextId, reqs, last,
           raStatus, loading, messages, error, pending, raLast >>

client == << sessions, session, isLoading, isEditorOpen, editingSession >>

\* ---------------------------------------------------------------- bounds
MaxId == 2          \* identifiers the backend can assign: 1..MaxId
MaxVer == 1         \* contents: 0..MaxVer
MaxInFlight == 2    \* sessionAPI calls in flight at once
MaxMsgs == 2        \* RAView: messages in a response, and message contents 1..MaxMsgs

Ids == 1..MaxId
Vers == 0..MaxVer
NoRow == -1

None == [id |-> 0, v |-> 0]
Absent == "absent"
Unparsable == "{"
StoredValues == {Absent, "true", "false", Unparsable}

Sess(i, c) == [id |-> i, v |-> c]

\* ------------------------------------------------------------- local storage
JSONstringify_Const(b) == "true"

\* JSON.stringify of a boolean
JSONstringify(b) == IF b THEN "true" ELSE "false"

\* JSON.parse: the value, or a thrown SyntaxError
JSONparse(s) ==
    CASE s = "true" -> [threw |-> FALSE, value |-> TRUE]
      [] s = "false" -> [threw |-> FALSE, value |-> FALSE]
      [] OTHER -> [threw |-> TRUE, value |-> TRUE]

\* the useState initialiser of isSidebarOpen
InitSidebar(stored) ==
    IF stored # Absent THEN JSONparse(stored)
    ELSE [threw |-> FALSE, value |-> TRUE]

\* ------------------------------------------------------------------ backend
RECURSIVE Rows(_, _)
Rows(d, i) ==
    IF i > MaxId THEN << >>
    ELSE (IF d[i] # NoRow THEN << Sess(i, d[i]) >> ELSE << >>) \o Rows(d, i + 1)

\* listSessions: the backend's sessions, one per identifier
listSessions(d) == Rows(d, 1)

\* ------------------------------------------------------------ reconciliation
RECURSIVE Filter(_, _)
Filter(list, i) ==
    IF list = << >> THEN << >>
    ELSE (IF Head(list).id # i THEN << Head(list) >> ELSE << >>)
             \o Filter(Tail(list), i)

UpdateList_First(list, updated) ==
    [k \in 1..Len(list) |-> IF k = 1 THEN updated ELSE list[k]]

\* sessions.map((s) => (s.id === updated.id ? updated : s))
UpdateList(list, updated) ==
    [k \in 1..Len(list) |-> IF list[k].id = updated.id THEN updated ELSE list[k]]

UpdateCurrent_Stale(seen, cur, updated) == cur

\* if (session?.id === updated.id) setSession(updated)
UpdateCurrent(seen, cur, updated) ==
    IF seen.id = updated.id THEN updated ELSE cur

CreateList_Append(list, created) == list \o << created >>

\* [created, ...sessions]
CreateList(list, created) == << created >> \o list

DeleteList_Tail(list, i) == IF list = << >> THEN << >> ELSE Tail(list)

\* sessions.filter((s) => s.id !== sessionId)
DeleteList(list, i) == Filter(list, i)

\* if (session?.id === sessionId || sessions.length === 0)
\*   setSession(sessions[0] || null)
DeleteCurrent(list, seen, cur, i) ==
    IF seen.id = i \/ Len(list) = 0
    THEN (IF Len(list) > 0 THEN list[1] ELSE None)
    ELSE cur

LoadList_Append(list, data) == list \o data

\* setSessions(data)
LoadList(list, data) == data

LoadCurrent_Live(seen, cur, data) ==
    IF cur = None /\ Len(data) > 0 THEN data[1] ELSE cur

\* if (!session && data.length > 0) setSession(data[0])
LoadCurrent(seen, cur, data) ==
    IF seen = None /\ Len(data) > 0 THEN data[1] ELSE cur

\* ----------------------------------------------------------------- requests
Req(k, i, c, list, cur) ==
    [kind |-> k, id |-> i, v |-> c, seenSessions |-> list, seenSession |-> cur,
     phase |-> "sent", data |-> << >>, passed |-> FALSE]

\* fetchSessions up to its await; its closure holds `session` only
ListReq(cur) == Req("list", 0, 0, << >>, cur)

NoLast == [kind |-> "none", step |-> "none", id |-> 0, data |-> << >>,
           seenSessions |-> << >>, seenSession |-> None,
           preSessions |-> << >>, preSession |-> None,
           preEditorOpen |-> FALSE, preEditing |-> None, preLoading |-> FALSE,
           preSidebarOpen |-> TRUE, preStored |-> Absent, from |-> "none",
           passed |-> FALSE]

Step(k, s, i) ==
    [NoLast EXCEPT !.kind = k, !.step = s, !.id = i,
                   !.preSessions = sessions, !.preSession = session,
                   !.preEditorOpen = isEditorOpen, !.preEditing = editingSession,
                   !.preLoading = isLoading, !.preSidebarOpen = isSidebarOpen,
                   !.preStored = storage]

StepOf(r, s) ==
    [Step(r.kind, s, r.id) EXCEPT !.data = r.data,
                                  !.seenSessions = r.seenSessions,
                                  !.seenSession = r.seenSession,
                                  !.passed = r.passed]

Refetch_Unguarded(rs, changed, u, cur) ==
    IF changed THEN Append(rs, ListReq(cur)) ELSE rs

\* useEffect(() => { fetchSessions() }, [fetchSessions]): fetchSessions is a
\* new callback when user?.email or session changed, and then runs again; with
\* no user it returns at once
Refetch(rs, changed, u, cur) ==
    IF changed /\ u THEN Append(rs, ListReq(cur)) ELSE rs

Room == Len(reqs) < MaxInFlight

\* the calls in flight without the k-th
Without(rs, k) == [j \in 1..(Len(rs) - 1) |-> IF j < k THEN rs[j] ELSE rs[j + 1]]

\* ------------------------------------------------------------------- RAView
\* lists of messages, a message standing for its content
Msgs == UNION {[1..n -> 1..MaxMsgs] : n \in 0..MaxMsgs}

\* useState<IStatus | null>({ status: true, message: "All good" })
AllGood == [status |-> TRUE, message |-> "All good"]

\* null as a value of the error state
NoError == [status |-> FALSE, message |-> "null"]

\* what fetchJSON hands to onError
Errors == {[status |-> FALSE, message |-> "Connection error"],
           [status |-> FALSE, message |-> "Fetch error"]}

\* what fetchJSON hands to onSuccess: the body of the server's response
Bodies == [status : BOOLEAN, data : Msgs, message : {"done"}]

NoRaLast == [step |-> "none", body |-> [status |-> TRUE, data |-> << >>, message |-> "done"],
             err |-> NoError, preMessages |-> << >>, preError |-> AllGood,
             preLoading |-> FALSE]

RaStep(s) ==
    [NoRaLast EXCEPT !.step = s, !.preMessages = messages, !.preError = error,
                     !.preLoading = loading]

\* the useState initialisers of RAView
InitRA ==
    /\ raStatus = "unmounted"
    /\ loading = FALSE
    /\ messages = << >>
    /\ error = AllGood
    /\ pending = FALSE
    /\ raLast = NoRaLast

Init ==
    /\ InitRA
    /\ status = "unmounted"
    /\ user \in BOOLEAN
    /\ sessions = << >>
    /\ session = None
    /\ isLoading = FALSE
    /\ isEditorOpen = FALSE
    /\ editingSession = None
    /\ isSidebarOpen = TRUE
    /\ storage \in StoredValues
    /\ db = [i \in Ids |-> NoRow]
    /\ nextId = 1
    /\ reqs = << >>
    /\ last = NoLast

\* ------------------------------------------------------------ mount, reload
\* the record of a mount: after a reload of a mounted page it keeps the flag
\* the page had
Mounted(s) ==
    IF last.kind = "reload" /\ last.step = "ok"
    THEN [Step("mount", s, 0) EXCEPT !.from = "reload",
                                     !.preSidebarOpen = last.preSidebarOpen]
    ELSE Step("mount", s, 0)

\* first render: the useState initialisers, then the two effects
Mount ==
    /\ status = "unmounted"
    /\ LET r == InitSidebar(storage) IN
       IF r.threw
       THEN /\ status' = "crashed"
            /\ last' = Mounted("threw")
            /\ UNCHANGED << isSidebarOpen, storage, reqs, isLoading >>
       ELSE /\ status' = "mounted"
            /\ isSidebarOpen' = r.value
            /\ storage' = JSONstringify(r.value)
            /\ reqs' = Refetch(<< >>, TRUE, user, session)
            /\ isLoading' = user
            /\ last' = Mounted("ok")
    /\ UNCHANGED << user, sessions, session, isEditorOpen, editingSession, db, nextId >>
    /\ UNCHANGED raView

\* the page is reloaded: the component and the store start over, local
\* storage and the backend stay
Reload ==
    /\ status # "unmounted"
    /\ status' = "unmounted"
    /\ sessions' = << >>
    /\ session' = None
    /\ isLoading' = FALSE
    /\ isEditorOpen' = FALSE
    /\ editingSession' = None
    /\ isSidebarOpen' = TRUE
    /\ reqs' = << >>
    /\ last' = [NoLast EXCEPT !.kind = "reload",
                              !.step = IF status = "mounted" THEN "ok" ELSE "crashed",
                              !.preSidebarOpen = isSidebarOpen]
    /\ UNCHANGED << user, storage, db, nextId >>
    /\ UNCHANGED raView

\* appContext supplies another user: user?.email appears or disappears
SetUser ==
    /\ status = "mounted"
    /\ user \/ Room
    /\ user' = ~user
    /\ reqs' = Refetch(reqs, TRUE, user', session)
    /\ isLoading' = (isLoading \/ user')
    /\ last' = Step("user", "ok", 0)
    /\ UNCHANGED << status, sessions, session, isEditorOpen, editingSession,
                    isSidebarOpen, storage, db, nextId >>
    /\ UNCHANGED raView

\* ------------------------------------------------------------------ gestures
\* onToggle, and the effect that persists the flag
ToggleSidebar ==
    /\ status = "mounted"
    /\ isSidebarOpen' = ~isSidebarOpen
    /\ storage' = JSONstringify(isSidebarOpen')
    /\ last' = Step("toggle", "ok", 0)
    /\ UNCHANGED << status, user, client, db, nextId, reqs >>
    /\ UNCHANGED raView

\* onEditSession
EditSession(s) ==
    /\ status = "mounted"
    /\ editingSession' = s
    /\ isEditorOpen' = TRUE
    /\ last' = Step("edit", "ok", s.id)
    /\ UNCHANGED << status, user, sessions, session, isLoading, isSidebarOpen,
                    storage, db, nextId, reqs >>
    /\ UNCHANGED raView

\* onCancel
CancelEditor ==
    /\ status = "mounted"
    /\ isEditorOpen
    /\ isEditorOpen' = FALSE
    /\ editingSession' = None
    /\ last' = Step("cancel", "ok", 0)
    /\ UNCHANGED << status, user, sessions, session, isLoading, isSidebarOpen,
                    storage, db, nextId, reqs >>
    /\ UNCHANGED raView

\* a handler that returns at its first line: if (!user?.email) return
Returns(k, i) ==
    /\ last' = Step(k, "noop", i)
    /\ UNCHANGED << status, user, client, isSidebarOpen, storage, db, nextId, reqs >>
    /\ UNCHANGED raView

\* a handler up to its await: the call is on its way
Calls(r) ==
    /\ Room
    /\ reqs' = Append(reqs, r)
    /\ last' = StepOf(r, "invoke")
    /\ UNCHANGED << status, user, sessions, session, isEditorOpen, editingSession,
                    isSidebarOpen, storage, db, nextId >>
    /\ UNCHANGED raView

\* handleSaveSession up to its await
SaveSession(i, c) ==
    /\ status = "mounted"
    /\ IF ~user THEN Returns("save", i)
       ELSE /\ Calls(Req(IF i # 0 THEN "update" ELSE "create", i, c, sessions, session))
            /\ UNCHANGED isLoading

\* onSave of the open SessionEditor, which edits editingSession: the saved
\* draft has that session's identifier
SaveEdited(c) ==
    /\ isEditorOpen
    /\ editingSession # None
    /\ SaveSession(editingSession.id, c)

\* handleDeleteSession up to its await
DeleteSession(i) ==
    /\ status = "mounted"
    /\ IF ~user THEN Returns("delete", i)
       ELSE /\ Calls(Req("delete", i, 0, sessions, session))
            /\ UNCHANGED isLoading

\* handleSelectSession up to its await
SelectSession(i) ==
    /\ status = "mounted"
    /\ IF ~user \/ i = 0 THEN Returns("get", i)
       ELSE /\ Calls(Req("get", i, 0, << >>, None))
            /\ isLoading' = TRUE

\* ------------------------------------------------------------------ backend
Answer(r, out) == [r EXCEPT !.phase = "answered", !.data = out]

\* the backend carries the k-th call out and answers
Succeeds(k) ==
    LET r == reqs[k] IN
    /\ r.phase = "sent"
    /\ CASE r.kind = "list" ->
              /\ reqs' = [reqs EXCEPT ![k] = Answer(r, listSessions(db))]
              /\ UNCHANGED << db, nextId >>
         [] r.kind = "create" ->
              /\ nextId <= MaxId
              /\ db' = [db EXCEPT ![nextId] = r.v]
              /\ nextId' = nextId + 1
              /\ reqs' = [reqs EXCEPT ![k] = Answer(r, << Sess(nextId, r.v) >>)]
         [] r.kind = "update" ->
              /\ db[r.id] # NoRow
              /\ db' = [db EXCEPT ![r.id] = r.v]
              /\ reqs' = [reqs EXCEPT ![k] = Answer(r, << Sess(r.id, r.v) >>)]
              /\ UNCHANGED nextId
         [] r.kind = "delete" ->
              /\ db[r.id] # NoRow
              /\ db' = [db EXCEPT ![r.id] = NoRow]
              /\ reqs' = [reqs EXCEPT ![k] = Answer(r, << >>)]
              /\ UNCHANGED nextId
         [] r.kind = "get" ->
              /\ db[r.id] # NoRow
              /\ reqs' = [reqs EXCEPT ![k] = Answer(r, << Sess(r.id, db[r.id]) >>)]
              /\ UNCHANGED << db, nextId >>
    /\ last' = NoLast
    /\ UNCHANGED << status, user, client, isSidebarOpen, storage >>
    /\ UNCHANGED raView

NewSessions_Live(r) ==
    CASE r.kind = "list" -> LoadList(sessions, r.data)
      [] r.kind = "update" -> UpdateList(sessions, r.data[1])
      [] r.kind = "create" -> CreateList(sessions, r.data[1])
      [] r.kind = "delete" -> DeleteList(sessions, r.id)
      [] OTHER -> sessions

\* ------------------------------------------------------------ continuations
\* the store after the try block of the handler that made call r
NewSessions(r) ==
    CASE r.kind = "list" -> LoadList(sessions, r.data)
      [] r.kind = "update" -> UpdateList(r.seenSessions, r.data[1])
      [] r.kind = "create" -> CreateList(r.seenSessions, r.data[1])
      [] r.kind = "delete" -> DeleteList(r.seenSessions, r.id)
      [] OTHER -> sessions

NewSession_Latest(r) ==
    CASE r.kind = "list" -> LoadCurrent(r.seenSession, session, r.data)
      [] r.kind = "update" -> UpdateCurrent(r.seenSession, session, r.data[1])
      [] r.kind = "create" -> r.data[1]
      [] r.kind = "delete" -> DeleteCurrent(r.seenSessions, r.seenSession, session, r.id)
      [] OTHER -> IF r.passed THEN session ELSE r.data[1]

NewSession(r) ==
    CASE r.kind = "list" -> LoadCurrent(r.seenSession, session, r.data)
      [] r.kind = "update" -> UpdateCurrent(r.seenSession, session, r.data[1])
      [] r.kind = "create" -> r.data[1]
      [] r.kind = "delete" -> DeleteCurrent(r.seenSessions, r.seenSession, session, r.id)
      [] OTHER -> r.data[1]

SessionChanged_Always(r) == TRUE

\* whether the store's session is another object after the try block: an
\* object of a response is a new one, an entry of the list the closure holds
\* is taken to be the current object when it has its value
SessionChanged(r) ==
    CASE r.kind = "list" -> r.seenSession = None /\ Len(r.data) > 0
      [] r.kind = "update" -> r.seenSession.id = r.data[1].id
      [] r.kind = "delete" -> NewSession(r) # session
      [] OTHER -> TRUE

\* finally { setIsLoading(false) } of fetchSessions and handleSelectSession
Finally(r) == IF r.kind \in {"list", "get"} THEN FALSE ELSE isLoading

EditorAfter_Keeps(r) == << isEditorOpen, editingSession >>

\* setIsEditorOpen(false); setEditingSession(undefined) at the end of the try
\* block of handleSaveSession
EditorAfter(r) ==
    IF r.kind \in {"update", "create"} THEN << FALSE, None >>
    ELSE << isEditorOpen, editingSession >>

\* the calls left in flight when the continuation of the k-th runs: a
\* getSession call made before it has been passed by a later one
Passing(rs, k) ==
    [j \in 1..Len(rs) |->
        IF j < k /\ rs[j].kind = "get" /\ rs[k].kind = "get"
        THEN [rs[j] EXCEPT !.passed = TRUE] ELSE rs[j]]

\* the continuation of the k-th call's handler after a successful await
Resolves(k) ==
    LET r == reqs[k] IN
    /\ status = "mounted"
    /\ r.phase = "answered"
    /\ sessions' = NewSessions(r)
    /\ session' = NewSession(r)
    /\ isEditorOpen' = EditorAfter(r)[1]
    /\ editingSession' = EditorAfter(r)[2]
    /\ reqs' = Refetch(Without(Passing(reqs, k), k), SessionChanged(r), user, session')
    /\ isLoading' = (Finally(r) \/ (SessionChanged(r) /\ user))
    /\ last' = StepOf(r, "ok")
    /\ UNCHANGED << status, user, isSidebarOpen, storage, db, nextId >>
    /\ UNCHANGED raView

CatchStore_Clears(r) == << sessions, None >>
CatchStore_Empties(r) == << << >>, session >>

CatchEditor_Closes(r) == << FALSE, None >>

\* the catch blocks: console.error and messageApi.error, nothing of the state
CatchStore(r) == << sessions, session >>
CatchEditor(r) == << isEditorOpen, editingSession >>

Rejects_Retries(k) ==
    LET r == reqs[k] IN
    /\ status = "mounted"
    /\ r.phase = "sent"
    /\ reqs' = Refetch(Without(reqs, k), r.kind = "list", user, session)
    /\ UNCHANGED << sessions, session, isEditorOpen, editingSession >>
    /\ isLoading' = (r.kind = "list" \/ Finally(r))
    /\ last' = StepOf(r, "fail")
    /\ UNCHANGED << status, user, isSidebarOpen, storage, db, nextId >>
    /\ UNCHANGED raView

\* the k-th call fails, which changes nothing at the backend: its await
\* rejects and the handler's catch block runs
Rejects(k) ==
    LET r == reqs[k] IN
    /\ status = "mounted"
    /\ r.phase = "sent"
    /\ reqs' = Without(reqs, k)
    /\ sessions' = CatchStore(r)[1]
    /\ session' = CatchStore(r)[2]
    /\ isEditorOpen' = CatchEditor(r)[1]
    /\ editingSession' = CatchEditor(r)[2]
    /\ isLoading' = Finally(r)
    /\ last' = StepOf(r, "fail")
    /\ UNCHANGED << status, user, isSidebarOpen, storage, db, nextId >>
    /\ UNCHANGED raView

\* ------------------------------------------------------------ RAView steps
\* the state of SessionManager, which RAView leaves alone
sessionManager == << status, sessions, session, isLoading, isEditorOpen,
                     editingSession, isSidebarOpen, storage, db, nextId, reqs, last >>

\* fetchMessages up to the call of fetchJSON
FetchMessages ==
    /\ error' = NoError
    /\ loading' = TRUE
    /\ pending' = TRUE
    /\ UNCHANGED messages

\* first render of RAView and its mount effect: if (user) fetchMessages()
RAMount ==
    /\ raStatus = "unmounted"
    /\ raStatus' = "mounted"
    /\ IF user THEN FetchMessages /\ raLast' = RaStep("fetch")
       ELSE UNCHANGED << loading, messages, error, pending >> /\ raLast' = RaStep("mount")
    /\ UNCHANGED << user, sessionManager >>

\* the page is reloaded: RAView starts over, an unanswered call is dropped
RAReload ==
    /\ raStatus = "mounted"
    /\ raStatus' = "unmounted"
    /\ loading' = FALSE
    /\ messages' = << >>
    /\ error' = AllGood
    /\ pending' = FALSE
    /\ raLast' = NoRaLast
    /\ UNCHANGED << user, sessionManager >>

\* SideBarView calls the setMessages it was given
SidebarSetMessages(ms) ==
    /\ raStatus = "mounted"
    /\ messages' = ms
    /\ raLast' = RaStep("set")
    /\ UNCHANGED << raStatus, loading, error, pending, user, sessionManager >>

OnSuccess_Always(body, ms) == [messages |-> body.data, loading |-> FALSE]

\* onSuccess: the state it leaves
OnSuccess(body, ms) ==
    [messages |-> IF body.status THEN body.data ELSE ms, loading |-> FALSE]

\* onError: the state it leaves
OnError(err) == [error |-> err, loading |-> FALSE]

\* fetchJSON hands the body of the response to onSuccess
RASucceeds(body) ==
    /\ raStatus = "mounted"
    /\ pending
    /\ pending' = FALSE
    /\ messages' = OnSuccess(body, messages).messages
    /\ loading' = OnSuccess(body, messages).loading
    /\ raLast' = [RaStep("success") EXCEPT !.body = body]
    /\ UNCHANGED << raStatus, error, user, sessionManager >>

\* fetchJSON hands an error to onError
RAFails(err) ==
    /\ raStatus = "mounted"
    /\ pending
    /\ pending' = FALSE
    /\ error' = OnError(err).error
    /\ loading' = OnError(err).loading
    /\ raLast' = [RaStep("error") EXCEPT !.err = err]
    /\ UNCHANGED << raStatus, messages, user, sessionManager >>

\* ------------------------------------------------------------ specifications
\* what the sidebar and the editor can hand to the handlers: the sessions of
\* the rendered list, a draft without identifier, an edited content
Listed == {sessions[k].id : k \in 1..Len(sessions)}
Edited == 1..MaxVer

Gestures ==
    \/ SaveSession(0, 0)
    \/ \E i \in Listed, c \in Edited : SaveSession(i, c)
    \/ \E i \in Listed : DeleteSession(i)
    \/ \E i \in Listed \cup {0} : SelectSession(i)

Backend ==
    \/ \E k \in 1..Len(reqs) : Succeeds(k)
    \/ \E k \in 1..Len(reqs) : Resolves(k)
    \/ \E k \in 1..Len(reqs) : Rejects(k)

\* the synchronisation of the store with the backend
InitSync == Init /\ storage = Absent

Next ==
    \/ Mount
    \/ Reload
    \/ Gestures
    \/ Backend

Spec == InitSync /\ [][Next]_vars

\* the editor and the saves it makes
NextEditor ==
    \/ Mount
    \/ \E s \in {sessions[k] : k \in 1..Len(sessions)} \cup {None} : EditSession(s)
    \/ CancelEditor
    \/ SaveSession(0, 0)
    \/ \E i \in Listed, c \in Edited : SaveSession(i, c)
    \/ \E c \in Edited : SaveEdited(c)
    \/ Backend

EditorSpec == InitSync /\ [][NextEditor]_vars

\* the sidebar flag and local storage, over reloads of the page
NextSidebar ==
    \/ Mount
    \/ Reload
    \/ ToggleSidebar
    \/ SetUser
    \/ EditSession(None)
    \/ CancelEditor
    \/ Backend

SidebarSpec == Init /\ [][NextSidebar]_vars

\* the handlers while the user identifier is absent, on the lists that
\* sessions created while it was present leave
NextUser ==
    \/ Mount
    \/ SetUser
    \/ SaveSession(0, 0)
    \/ SelectSession(0)
    \/ ~user /\ Gestures
    \/ Backend

UserSpec == InitSync /\ [][NextUser]_vars

\* the Loads of a page that is reloaded while the user identifier comes and
\* goes and sessions are created
NextRetry ==
    \/ Mount
    \/ Reload
    \/ SetUser
    \/ SaveSession(0, 0)
    \/ Backend

RetrySpec == InitSync /\ [][NextRetry]_vars

\* the Loads of a page that mounts for a user whose sessions the backend
\* holds already, with no gesture: every call is answered or fails, and the
\* continuation of an answered call runs
InitLoad ==
    /\ InitRA
    /\ status = "unmounted"
    /\ user = TRUE
    /\ sessions = << >>
    /\ session = None
    /\ isLoading = FALSE
    /\ isEditorOpen = FALSE
    /\ editingSession = None
    /\ isSidebarOpen = TRUE
    /\ storage \in StoredValues \ {Unparsable}
    /\ db \in [Ids -> Vers \cup {NoRow}]
    /\ nextId = MaxId + 1
    /\ reqs = << >>
    /\ last = NoLast

NextLoad ==
    \/ Mount
    \/ Backend

LoadSpec == InitLoad /\ [][NextLoad]_vars /\ WF_vars(Mount) /\ WF_vars(Backend)

\* RAView: its mount, the answer to fetchMessages, and the messages the
\* side bar sets meanwhile
NextRA ==
    \/ RAMount
    \/ RAReload
    \/ \E ms \in Msgs : SidebarSetMessages(ms)
    \/ \E body \in Bodies : RASucceeds(body)
    \/ \E err \in Errors : RAFails(err)

RASpec == InitSync /\ [][NextRA]_vars

\* ------------------------------------------------------------------- claims
After(k, s) == last.kind = k /\ last.step = s

\* the continuation ran on the store its handler saw when it was invoked
Undisturbed == last.preSessions = last.seenSessions /\ last.preSession = last.seenSession

FirstOrNone(list) == IF Len(list) > 0 THEN list[1] ELSE None

Entries(list, i) == {k \in 1..Len(list) : list[k].id = i}

\* C1: after handleDeleteSession succeeds for the session that is current,
\* current is the first element of the list as it is after the removal, or
\* None when that list is empty ([A,B], current A, delete(A): [B], current B).
C1_DeleteCurrentSelectsFirstRemaining ==
    (After("delete", "ok") /\ Undisturbed /\ last.preSession.id = last.id)
        => session = FirstOrNone(sessions)

\* C2: the store's list never holds two sessions with the same identifier,
\* whatever the order in which Load, Create, Update and Delete complete.
C2_NoDuplicateIds ==
    \A j, k \in 1..Len(sessions) : sessions[j].id = sessions[k].id => j = k

\* a continuation ran on a list other than the one its handler saw, and the
\* list has two sessions
C2_Witness ==
    /\ last.step = "ok" /\ last.kind \in {"create", "update", "delete"}
    /\ last.preSessions # last.seenSessions
    /\ Len(sessions) = 2

\* C3: right after a successful create, current is the session createSession
\* returned, and the list is that session followed by the entries the handler
\* saw when it was invoked.
C3_CreatePrepends ==
    After("create", "ok") =>
        /\ session = last.data[1]
        /\ sessions[1] = last.data[1]
        /\ Tail(sessions) = last.seenSessions

C3_Witness == After("create", "ok") /\ Len(last.seenSessions) = 1 /\ Len(sessions) = 2

\* C4 as stated: after a successful update of identifier i, whenever current
\* has identifier i, current and the list entries of identifier i are the same
\* value, also when another operation completed since the update was issued.
C4_UpdateKeepsCurrentAndEntryEqual ==
    (After("update", "ok") /\ session.id = last.id)
        => \A k \in Entries(sessions, last.id) : sessions[k] = session

\* C4 as amended: it holds when current, at the time the response is
\* reconciled, is still the session the handler saw when it was invoked; then
\* current and the entries of identifier i are the record updateSession returned.
C4_UpdateKeepsEqualWhenCurrentUndisturbed ==
    (After("update", "ok") /\ last.preSession = last.seenSession /\ session.id = last.id)
        => /\ session = last.data[1]
           /\ \A k \in Entries(sessions, last.id) : sessions[k] = session

C4_Witness ==
    /\ After("update", "ok") /\ last.preSession = last.seenSession
    /\ session.id = last.id
    /\ session # last.preSession
    /\ Entries(sessions, last.id) # {}

\* C5 as stated: a successful Load replaces the list with the response, and
\* sets current (to the response's first element) only if no session is
\* selected when the response is reconciled and the response is non-empty; a
\* session selected at that time is left as it is.
C5_LoadSelectsOnlyIfNoneAtReconcile ==
    After("list", "ok") =>
        /\ sessions = last.data
        /\ session # last.preSession =>
               last.preSession = None /\ Len(last.data) > 0 /\ session = last.data[1]

\* C5 as amended: the test is on the session fetchSessions held when it was
\* called: if that was None and the response is non-empty, current becomes the
\* response's first element, whatever is selected by then; otherwise current
\* is left unchanged.
C5_LoadSelectsIfNoneWhenCalled ==
    After("list", "ok") =>
        /\ sessions = last.data
        /\ session = IF last.seenSession = None /\ Len(last.data) > 0
                     THEN last.data[1] ELSE last.preSession

\* a Load called with nothing selected is reconciled after a session was selected
C5_Witness ==
    /\ After("list", "ok") /\ last.seenSession = None /\ last.preSession # None
    /\ Len(last.data) > 0 /\ session = last.data[1] /\ session # last.preSession

\* C6: when getSession fails, handleSelectSession leaves the current session
\* and the list as they were.
C6_SelectFailureKeepsStore ==
    (last.kind = "get" /\ last.step \in {"invoke", "fail"})
        => session = last.preSession /\ sessions = last.preSessions

C6_Witness == After("get", "fail") /\ session # None /\ Len(sessions) = 2

\* C7: when the call of Load, Create, Update or Delete fails, the handler
\* catches the failure: list and current are what they were and the component
\* stays mounted.
C7_FailureKeepsStore ==
    (last.kind \in {"list", "create", "update", "delete"} /\ last.step \in {"invoke", "fail"})
        => /\ session = last.preSession
           /\ sessions = last.preSessions
           /\ status = "mounted"

C7_Witness == After("delete", "fail") /\ session.id = last.id /\ Len(sessions) = 2

\* C8: the sidebar flag round-trips through local storage: a mounted page has
\* its flag stored, a page mounted after a reload has the flag it had before
\* the reload, and with no key stored the flag starts as true.
C8_SidebarRoundTrip ==
    /\ status = "mounted" => storage = (IF isSidebarOpen THEN "true" ELSE "false")
    /\ (After("mount", "ok") /\ last.from = "reload") => isSidebarOpen = last.preSidebarOpen
    /\ (After("mount", "ok") /\ last.preStored = Absent) => isSidebarOpen

C8_Witness ==
    /\ After("mount", "ok") /\ last.from = "reload"
    /\ ~last.preSidebarOpen /\ ~isSidebarOpen

\* C9: with an unparsable value stored under the key, the flag starts as true
\* and the component mounts, as with no key stored.
C9_UnparsableMountsOpen ==
    (last.kind = "mount" /\ last.preStored = Unparsable)
        => status = "mounted" /\ isSidebarOpen

\* C10: a successful save closes the editor and clears the editing session; a
\* failed save leaves both as they were, so an open editor stays open.
C10_SaveClosesEditorFailureKeepsIt ==
    /\ (last.kind \in {"create", "update"} /\ last.step = "ok")
           => ~isEditorOpen /\ editingSession = None
    /\ (last.kind \in {"create", "update"} /\ last.step \in {"invoke", "fail"})
           => isEditorOpen = last.preEditorOpen /\ editingSession = last.preEditing

C10_Witness ==
    /\ After("update", "fail") /\ isEditorOpen /\ editingSession.id = last.id

\* the entries of the list before position k that have identifier i
Before(list, k, i) == {j \in 1..(k - 1) : list[j].id = i}

\* C11: after handleDeleteSession succeeds for identifier i, when the list the
\* handler saw was not empty and the current session it saw had another
\* identifier, current is left as it is, and the list is the list the handler
\* saw without its entries of identifier i, the others in their order.
C11_DeleteOtherKeepsCurrentFiltersList ==
    (After("delete", "ok") /\ Len(last.seenSessions) > 0 /\ last.seenSession.id # last.id)
        => /\ session = last.preSession
           /\ Len(sessions) = Len(last.seenSessions) - Cardinality(Entries(last.seenSessions, last.id))
           /\ \A k \in 1..Len(last.seenSessions) :
                  last.seenSessions[k].id # last.id =>
                      sessions[k - Cardinality(Before(last.seenSessions, k, last.id))]
                          = last.seenSessions[k]

\* the second of two sessions is deleted while the first is current
C11_Witness ==
    /\ After("delete", "ok") /\ Len(last.seenSessions) = 2
    /\ last.seenSession # None /\ last.seenSession.id # last.id
    /\ last.seenSessions[2].id = last.id
    /\ Len(sessions) = 1 /\ session = last.seenSession

\* C12: whenever no operation is in flight, the current session is None or
\* has the identifier of an entry of the list, whatever Load, Create, Update,
\* Delete and Select ran before and in whatever order they completed.
C12_CurrentIsListedWhenQuiet ==
    (status = "mounted" /\ reqs = << >>) => (session = None \/ session.id \in Listed)

IdsOf(list) == {list[k].id : k \in 1..Len(list)}

\* C13: the continuations of Create and Delete write the list from the list
\* their handler captured, not from the store: what another operation stored
\* since then is overwritten.  A session that an overlapping Create added is
\* no longer in the list, and a session that an overlapping Delete removed is
\* in it again.
C13_LaterReconciliationOverwrites ==
    (last.step = "ok" /\ last.kind \in {"create", "delete"}) =>
        LET own == IF last.kind = "create" THEN {last.data[1].id} ELSE {}
            gone == IF last.kind = "delete" THEN {last.id} ELSE {}
        IN /\ \A i \in IdsOf(last.preSessions) \ (IdsOf(last.seenSessions) \cup own) :
                  i \notin Listed
           /\ \A i \in IdsOf(last.seenSessions) \ (IdsOf(last.preSessions) \cup gone) :
                  i \in Listed

\* two Creates were issued on the same list; the first one's session was
\* stored and current, and the second one's continuation has dropped it
C13_Witness ==
    /\ After("create", "ok")
    /\ Len(last.preSessions) = Len(last.seenSessions) + 1
    /\ Tail(last.preSessions) = last.seenSessions
    /\ last.preSession = last.preSessions[1]
    /\ last.preSession.id # last.data[1].id
    /\ last.preSession.id \notin Listed

\* C14: the continuation of handleSelectSession stores its response as the
\* current session also when a Select made after it was reconciled before it:
\* Select(A), Select(B), B's response reconciled, then A's: current is A.
C14_StaleSelectWins ==
    (After("get", "ok") /\ last.passed) =>
        session = last.data[1] /\ session.id = last.id

\* B, selected after A, was current when A's response was reconciled
C14_Witness ==
    /\ After("get", "ok") /\ last.passed
    /\ last.preSession # None /\ last.preSession.id # last.id
    /\ session.id = last.id

\* C18: a successful update of identifier i changes the entries of identifier
\* i only: the list has the length of the list the handler saw and, at every
\* position, an entry of another identifier is the one the handler saw there;
\* when the list has no entry of identifier i it is that list unchanged; and
\* when the current session the handler saw has another identifier, current
\* is left as it is.
C18_UpdateTouchesOnlyItsEntries ==
    After("update", "ok") =>
        /\ Len(sessions) = Len(last.seenSessions)
        /\ \A k \in 1..Len(last.seenSessions) :
               last.seenSessions[k].id # last.id => sessions[k] = last.seenSessions[k]
        /\ Entries(last.seenSessions, last.id) = {} => sessions = last.seenSessions
        /\ last.seenSession.id # last.id => session = last.preSession

\* the second of two sessions is updated while the first is current
C18_Witness ==
    /\ After("update", "ok") /\ Len(last.seenSessions) = 2
    /\ last.seenSessions[2].id = last.id
    /\ last.seenSession = last.seenSessions[1]
    /\ sessions[2] # last.seenSessions[2]
    /\ session = last.seenSession

\* the calls that were made and that the backend has not answered yet
Sent(rs, kinds) == {k \in 1..Len(rs) : rs[k].kind \in kinds /\ rs[k].phase = "sent"}

Kinds == {"list", "create", "update", "delete", "get"}

\* C15: while user?.email is absent, fetchSessions, handleSaveSession,
\* handleDeleteSession and handleSelectSession make no sessionAPI call and
\* leave the list, the current session, isLoading and the editor's flag and
\* session as they were; handleSelectSession does the same for a session
\* without identifier.
C15_NoUserNoCall ==
    [][ /\ (~user /\ ~user') => Cardinality(Sent(reqs', Kinds)) <= Cardinality(Sent(reqs, Kinds))
        /\ (~user' /\ last'.kind \in {"mount", "user", "save", "delete", "get"}) =>
               /\ last'.step # "invoke"
               /\ Cardinality(Sent(reqs', Kinds)) <= Cardinality(Sent(reqs, Kinds))
               /\ client' = client
        /\ (last'.kind = "get" /\ last'.id = 0) =>
               /\ last'.step = "noop"
               /\ reqs' = reqs
               /\ client' = client
        /\ last'.step = "noop" => (reqs' = reqs /\ client' = client)
      ]_vars

\* with no user, handleDeleteSession was called for a session of the list
\* while a call made earlier was in flight
C15_Witness ==
    /\ ~user /\ After("delete", "noop")
    /\ last.id \in Listed /\ session # None
    /\ reqs # << >>

\* this step makes a listSessions call: apart from the call whose handler
\* this step completes, there is one call more in flight, and the newest is a
\* listSessions call
ListIssued ==
    LET done == IF last'.step \in {"ok", "fail"} /\ last'.kind \in Kinds THEN 1 ELSE 0
    IN /\ Len(reqs') > Len(reqs) - done
       /\ reqs'[Len(reqs')].kind = "list"
       /\ reqs'[Len(reqs')].phase = "sent"

\* this step is a continuation that calls setSession
StoresSession ==
    /\ last'.step = "ok"
    /\ CASE last'.kind = "list" -> last'.seenSession = None /\ Len(last'.data) > 0
         [] last'.kind = "update" -> last'.seenSession.id = last'.id
         [] last'.kind = "delete" -> session' # session
         [] last'.kind \in {"create", "get"} -> TRUE
         [] OTHER -> FALSE

\* C16 as stated: once a listSessions call has failed, the next step makes a
\* listSessions call only if it changes the user identifier or is the
\* continuation of a gesture that changes the current session.
C16_NoLoadAfterFailedLoad ==
    [][ (After("list", "fail") /\ ListIssued) =>
            \/ user' # user
            \/ StoresSession /\ last'.kind \in {"create", "update", "delete", "get"}
      ]_vars

\* C16 as amended: the failure of a listSessions call makes no call, and a
\* listSessions call is made only by the mount, by a change of the user
\* identifier, or by a continuation that calls setSession: that of a gesture,
\* or that of another Load, in flight already, which selects the first
\* session of its response.
C16_LoadOnlyOnMountUserOrSetSession ==
    [][ /\ last'.step = "fail" => ~ListIssued
        /\ ListIssued =>
               \/ status = "unmounted" /\ status' = "mounted"
               \/ user' # user
               \/ StoresSession
      ]_vars

\* a Load has failed while another Load, called with nothing selected, holds
\* a response with sessions in it
C16_Witness ==
    /\ After("list", "fail")
    /\ \E k \in 1..Len(reqs) :
           /\ reqs[k].kind = "list" /\ reqs[k].phase = "answered"
           /\ reqs[k].seenSession = None /\ Len(reqs[k].data) > 0

\* C17: mounted for a fixed user, with no gesture and every call answered,
\* fetchSessions runs at the mount and once more when its continuation
\* selects the first session, and no more: a listSessions call is made only
\* at the mount or while nothing is selected, a call after the mount selects
\* a session, a selected session stays; and in the end no call is in flight
\* and isLoading is false.
C17_LoadsAtMostTwiceAndSettles ==
    /\ [][ /\ ListIssued => (status = "unmounted" \/ session = None)
           /\ (ListIssued /\ status = "mounted") => session' # None
           /\ session # None => session' = session
           /\ status = "mounted" => status' = "mounted"
         ]_vars
    /\ <>[](status = "mounted" /\ reqs = << >> /\ ~isLoading)

\* the second Load, called with the session the first one selected, has been
\* reconciled and nothing is in flight
C17_Witness ==
    /\ After("list", "ok") /\ last.seenSession # None
    /\ session = last.seenSession /\ Len(sessions) > 0
    /\ reqs = << >> /\ ~isLoading

\* C19: in RAView, the answer to a fetchMessages request leaves loading
\* false, whether it is a body with truthy status, a body with falsy status
\* or an error; messages become the body's data in the first case and stay as
\* they were in the others; the error state is left as it was by onSuccess
\* and by the side bar, is cleared by fetchMessages and set by onError only.
C19_AnswerEndsLoading ==
    /\ raLast.step \in {"success", "error"} => ~loading /\ ~pending
    /\ raLast.step = "success" =>
           /\ messages = IF raLast.body.status THEN raLast.body.data ELSE raLast.preMessages
           /\ error = raLast.preError
    /\ raLast.step = "error" => messages = raLast.preMessages /\ error = raLast.err
    /\ raLast.step = "fetch" => loading /\ error = NoError /\ messages = raLast.preMessages
    /\ raLast.step \in {"set", "mount"} => error = raLast.preError /\ loading = raLast.preLoading
    /\ error \in Errors => raLast.step \in {"error", "set"}

\* a body with falsy status, and messages in it, answered the request while
\* the side bar had set other messages: these are kept
C19_Witness ==
    /\ raLast.step = "success" /\ ~raLast.body.status
    /\ raLast.preLoading /\ ~loading
    /\ raLast.body.data # << >> /\ messages # << >> /\ messages # raLast.body.data
    /\ error = NoError
====
